---- MODULE Spec2Model ----
(***************************************************************************)
(* A model of src/src/foundation/foundation.ts: the e-commerce shopping    *)
(* cart (products, users, carts, orders).                                  *)
(*                                                                         *)
(* Objects.  JavaScript objects have identity.  The CartItem objects live  *)
(* in `heap` (a reference is an index into it); carts and orders hold      *)
(* sequences of references, so an item reachable from a cart and from an   *)
(* order is one object.  Carts and orders are referred to by their index   *)
(* in `carts` and `orders`.                                                *)
(*                                                                         *)
(* Numbers.  A JavaScript number that is an amount of money is modelled    *)
(* in fixed point, as an integer count of 1/Unit; floating-point rounding  *)
(* is not modelled.  Quantities, stock, rates and ids are plain integers.  *)
(*                                                                         *)
(* Time.  `now` is the last value the clock returned.  Every `new Date()`  *)
(* or `Date.now()` returns a value of Clock(now): the clock never goes     *)
(* back, and two reads may return the same millisecond.                    *)
(***************************************************************************)
EXTENDS Integers, Sequences, FiniteSets, TLC

VARIABLES
    now,      \* the last clock value read
    heap,     \* the CartItem objects, in allocation order
    carts,    \* the Cart objects the caller holds
    orders,   \* the Order objects the caller holds
    history,  \* history: history[o] = the statuses order o has held since createOrder returned it, and the quantities of the cart's items at that time
    added,    \* history: added[pid] = sum of the quantity arguments of the addToCart calls with product id pid
    ret       \* the outcome of the last call: its name, arguments, error thrown and value returned

vars == <<now, heap, carts, orders, history, added, ret>>

(* the variables with the operation called last in front: two states after *)
(* calls of different operations differ in the first component            *)
callVars == <<ret.op, vars>>

----------------------------------------------------------------------------
(* Bounds of the model *)

MaxTime == 1
MaxQty == 2

----------------------------------------------------------------------------
(* Enums, foundation.ts lines 16-42 *)

ProductCategory == [PHYSICAL |-> "PHYSICAL", DIGITAL |-> "DIGITAL", SUBSCRIPTION |-> "SUBSCRIPTION"]

OrderStatus == [PENDING |-> "PENDING", PROCESSING |-> "PROCESSING", SHIPPED |-> "SHIPPED",
                DELIVERED |-> "DELIVERED", CANCELLED |-> "CANCELLED"]

UserRole == [CUSTOMER |-> "CUSTOMER", ADMIN |-> "ADMIN", MODERATOR |-> "MODERATOR"]

ProductCategoryValue == {ProductCategory[k] : k \in DOMAIN ProductCategory}

OrderStatusValue == {OrderStatus[k] : k \in DOMAIN OrderStatus}

UserRoleValue == {UserRole[k] : k \in DOMAIN UserRole}

(* null and undefined of a string-typed or object-typed place; no reference *)
NULL == "null"

Undefined == "undefined"

NoRef == 0

(* an optional number: present or absent *)
Some(v) == [some |-> TRUE, val |-> v]

None == [some |-> FALSE, val |-> 0]

(* x || d for an optional number: d when x is absent or 0 *)
OrNumber(x, d) == IF x.some /\ x.val # 0 THEN x.val ELSE d

(* x || d for an optional string: d when x is absent or empty *)
OrString(x, d) == IF x \in {NULL, Undefined, ""} THEN d ELSE x

(* money in fixed point *)
Unit == 100 * 100

Clock(t) == t..MaxTime

----------------------------------------------------------------------------
(* Factories, foundation.ts lines 115-147 *)

createProduct(id, name, price, category, stock, downloadUrl, t) ==
    [id |-> id,
     name |-> name,
     price |-> price,
     category |-> category,
     stock |-> OrNumber(stock, 0),
     downloadUrl |-> OrString(downloadUrl, NULL),
     createdAt |-> t]

createUser(id, username, email, role) ==
    [id |-> id,
     username |-> username,
     email |-> email,
     role |-> OrString(role, UserRole.CUSTOMER),
     isActive |-> TRUE,
     cart |-> <<>>]

(* createCart reads the clock twice: t1 for createdAt, then t2 for lastModified *)
createCart(userId, t1, t2) ==
    [userId |-> userId,
     items |-> <<>>,
     createdAt |-> t1,
     lastModified |-> t2]

----------------------------------------------------------------------------
(* The inputs of the calls: the products and users of the example usage    *)
(* (foundation.ts lines 308-314), a moderator, and a second product record *)
(* that carries the id of the first.                                       *)

laptop == createProduct(1, "Gaming Laptop", 3 * Unit, ProductCategory.PHYSICAL, Some(2), Undefined, 0)

carePlan == createProduct(1, "Laptop Care Plan", 1 * Unit, ProductCategory.SUBSCRIPTION, None, Undefined, 0)

ebook == createProduct(2, "TypeScript Guide", 2 * Unit, ProductCategory.DIGITAL, None, "https://example.com/download/ts-guide", 0)

Products == {laptop, carePlan, ebook}

(* a second digital product, for orders with more than one download *)
videoCourse == createProduct(3, "TypeScript Course", 4 * Unit, ProductCategory.DIGITAL, None, "https://example.com/download/ts-course", 0)

ProductIds == {p.id : p \in Products \cup {videoCourse}}

customer == createUser(101, "johndoe", "john@example.com", UserRole.CUSTOMER)

admin == createUser(102, "admin", "admin@example.com", UserRole.ADMIN)

moderator == createUser(103, "mod", "mod@example.com", UserRole.MODERATOR)

Users == {customer, admin, moderator}

Quantities == -1..1

(* the quantities an item may hold in the model *)
QtyRange == -1..MaxQty

Addresses == {Undefined, "", "123 Main St, City, Country"}

RandomSuffixes == {"K3X9QZ7PA"}

----------------------------------------------------------------------------
(* Cart operations, foundation.ts lines 150-174 *)

Min(S) == CHOOSE x \in S : \A y \in S : x <= y

(* cart.items.find(item => item.productId === product.id): the reference   *)
(* of the first item of `items` with that product id, or NoRef             *)
findItem(h, items, pid) ==
    LET hits == {i \in 1..Len(items) : h[items[i]].productId = pid}
    IN  IF hits = {} THEN NoRef ELSE items[Min(hits)]

(* addToCart with `existingItem.quantity = quantity` for `+=` *)
addToCartOverwrite(h, cs, c, product, quantity, t) ==
    LET existingItem == findItem(h, cs[c].items, product.id)
    IN  IF existingItem # NoRef
        THEN [heap |-> [h EXCEPT ![existingItem].quantity = quantity],
              carts |-> [cs EXCEPT ![c].lastModified = t],
              value |-> c]
        ELSE [heap |-> Append(h, [productId |-> product.id,
                                  name |-> product.name,
                                  price |-> product.price,
                                  quantity |-> quantity,
                                  category |-> product.category]),
              carts |-> [cs EXCEPT ![c].items = Append(@, Len(h) + 1),
                                   ![c].lastModified = t],
              value |-> c]

(* addToCart with `cart.lastModified = new Date()` moved into the else branch *)
addToCartStale(h, cs, c, product, quantity, t) ==
    LET existingItem == findItem(h, cs[c].items, product.id)
    IN  IF existingItem # NoRef
        THEN [heap |-> [h EXCEPT ![existingItem].quantity = @ + quantity],
              carts |-> cs,
              value |-> c]
        ELSE [heap |-> Append(h, [productId |-> product.id,
                                  name |-> product.name,
                                  price |-> product.price,
                                  quantity |-> quantity,
                                  category |-> product.category]),
              carts |-> [cs EXCEPT ![c].items = Append(@, Len(h) + 1),
                                   ![c].lastModified = t],
              value |-> c]

(* addToCart that also copies the product's name, price and category into *)
(* the existing item                                                      *)
addToCartRefreshesItem(h, cs, c, product, quantity, t) ==
    LET existingItem == findItem(h, cs[c].items, product.id)
    IN  IF existingItem # NoRef
        THEN [heap |-> [h EXCEPT ![existingItem].quantity = @ + quantity,
                                 ![existingItem].name = product.name,
                                 ![existingItem].price = product.price,
                                 ![existingItem].category = product.category],
              carts |-> [cs EXCEPT ![c].lastModified = t],
              value |-> c]
        ELSE [heap |-> Append(h, [productId |-> product.id,
                                  name |-> product.name,
                                  price |-> product.price,
                                  quantity |-> quantity,
                                  category |-> product.category]),
              carts |-> [cs EXCEPT ![c].items = Append(@, Len(h) + 1),
                                   ![c].lastModified = t],
              value |-> c]

(* addToCart with `cart.items.unshift` for `cart.items.push` *)
addToCartPrepend(h, cs, c, product, quantity, t) ==
    LET existingItem == findItem(h, cs[c].items, product.id)
    IN  IF existingItem # NoRef
        THEN [heap |-> [h EXCEPT ![existingItem].quantity = @ + quantity],
              carts |-> [cs EXCEPT ![c].lastModified = t],
              value |-> c]
        ELSE [heap |-> Append(h, [productId |-> product.id,
                                  name |-> product.name,
                                  price |-> product.price,
                                  quantity |-> quantity,
                                  category |-> product.category]),
              carts |-> [cs EXCEPT ![c].items = <<Len(h) + 1>> \o @,
                                   ![c].lastModified = t],
              value |-> c]

(* addToCart(cart, product, quantity), where the cart is cs[c] and the     *)
(* clock reads t: the heap and the carts after the call, and the reference *)
(* returned                                                                *)
addToCart(h, cs, c, product, quantity, t) ==
    LET existingItem == findItem(h, cs[c].items, product.id)
    IN  IF existingItem # NoRef
        THEN [heap |-> [h EXCEPT ![existingItem].quantity = @ + quantity],
              carts |-> [cs EXCEPT ![c].lastModified = t],
              value |-> c]
        ELSE [heap |-> Append(h, [productId |-> product.id,
                                  name |-> product.name,
                                  price |-> product.price,
                                  quantity |-> quantity,
                                  category |-> product.category]),
              carts |-> [cs EXCEPT ![c].items = Append(@, Len(h) + 1),
                                   ![c].lastModified = t],
              value |-> c]

RECURSIVE SumSeq(_)
SumSeq(s) == IF s = <<>> THEN 0 ELSE Head(s) + SumSeq(Tail(s))

(* calculateSubtotal with `total + item.price` for `total + item.price * item.quantity` *)
calculateSubtotalPricesOnly(h, cart) ==
    SumSeq([i \in 1..Len(cart.items) |-> h[cart.items[i]].price])

(* cart.items.reduce((total, item) => total + item.price * item.quantity, 0) *)
calculateSubtotal(h, cart) ==
    SumSeq([i \in 1..Len(cart.items) |-> h[cart.items[i]].price * h[cart.items[i]].quantity])

----------------------------------------------------------------------------
(* Pricing, foundation.ts lines 177-197 *)

Max(a, b) == IF a >= b THEN a ELSE b

(* applyDiscount with the PERCENTAGE result clamped at 0 like the FIXED one *)
applyDiscountClamped(amount, discountType, discountValue) ==
    IF discountType = "PERCENTAGE"
    THEN Max(0, amount - ((amount * discountValue) \div 100))
    ELSE IF discountType = "FIXED"
         THEN Max(0, amount - discountValue)
         ELSE amount

applyDiscount(amount, discountType, discountValue) ==
    IF discountType = "PERCENTAGE"
    THEN amount - ((amount * discountValue) \div 100)
    ELSE IF discountType = "FIXED"
         THEN Max(0, amount - discountValue)
         ELSE amount

calculateTax(amount, taxRate) == (amount * taxRate) \div 100

(* calculateTotal with the tax computed on the subtotal before the discount *)
calculateTotalTaxOnSubtotal(h, cart, discountType, discountValue, taxRate) ==
    LET subtotal == calculateSubtotal(h, cart)
        afterDiscount == applyDiscount(subtotal, discountType, discountValue)
        tax == calculateTax(subtotal, OrNumber(taxRate, 0))
    IN  afterDiscount + tax

calculateTotal(h, cart, discountType, discountValue, taxRate) ==
    LET subtotal == calculateSubtotal(h, cart)
        afterDiscount == applyDiscount(subtotal, discountType, discountValue)
        tax == calculateTax(afterDiscount, OrNumber(taxRate, 0))
    IN  afterDiscount + tax

----------------------------------------------------------------------------
(* Orders, foundation.ts lines 200-250 *)

(* `ORD-${Date.now()}-${random suffix}` *)
generateOrderId(t, r) == <<"ORD", t, r>>

(* [...cart.items]: a new array holding the same item references *)
copyItems(items) == [i \in 1..Len(items) |-> items[i]]

(* createOrder with `userId: cart.userId` for `userId: user.id` *)
createOrderForCartOwner(h, cart, user, shippingAddress, r, t1, t2, t3) ==
    [id |-> generateOrderId(t1, r),
     userId |-> cart.userId,
     items |-> copyItems(cart.items),
     subtotal |-> calculateSubtotal(h, cart),
     total |-> calculateTotal(h, cart, NULL, 0, Some(10)),
     status |-> OrderStatus.PENDING,
     shippingAddress |-> OrString(shippingAddress, NULL),
     createdAt |-> t2,
     updatedAt |-> t3]

(* createOrder reads the clock three times: t1 in generateOrderId, t2 for  *)
(* createdAt, t3 for updatedAt                                             *)
createOrder(h, cart, user, shippingAddress, r, t1, t2, t3) ==
    [id |-> generateOrderId(t1, r),
     userId |-> user.id,
     items |-> copyItems(cart.items),
     subtotal |-> calculateSubtotal(h, cart),
     total |-> calculateTotal(h, cart, NULL, 0, Some(10)),
     status |-> OrderStatus.PENDING,
     shippingAddress |-> OrString(shippingAddress, NULL),
     createdAt |-> t2,
     updatedAt |-> t3]

(* validTransitions with a shipped order allowed back to PROCESSING *)
validTransitionsReturn ==
    [s \in OrderStatusValue |->
        CASE s = OrderStatus.PENDING -> {OrderStatus.PROCESSING, OrderStatus.CANCELLED}
          [] s = OrderStatus.PROCESSING -> {OrderStatus.SHIPPED, OrderStatus.CANCELLED}
          [] s = OrderStatus.SHIPPED -> {OrderStatus.DELIVERED, OrderStatus.PROCESSING}
          [] s = OrderStatus.DELIVERED -> {}
          [] s = OrderStatus.CANCELLED -> {}]

(* validTransitions with CANCELLED allowed from SHIPPED *)
validTransitionsCancelShipped ==
    [s \in OrderStatusValue |->
        CASE s = OrderStatus.PENDING -> {OrderStatus.PROCESSING, OrderStatus.CANCELLED}
          [] s = OrderStatus.PROCESSING -> {OrderStatus.SHIPPED, OrderStatus.CANCELLED}
          [] s = OrderStatus.SHIPPED -> {OrderStatus.DELIVERED, OrderStatus.CANCELLED}
          [] s = OrderStatus.DELIVERED -> {}
          [] s = OrderStatus.CANCELLED -> {}]

(* validTransitions with SHIPPED allowed from PENDING *)
validTransitionsSkipProcessing ==
    [s \in OrderStatusValue |->
        CASE s = OrderStatus.PENDING -> {OrderStatus.PROCESSING, OrderStatus.SHIPPED, OrderStatus.CANCELLED}
          [] s = OrderStatus.PROCESSING -> {OrderStatus.SHIPPED, OrderStatus.CANCELLED}
          [] s = OrderStatus.SHIPPED -> {OrderStatus.DELIVERED}
          [] s = OrderStatus.DELIVERED -> {}
          [] s = OrderStatus.CANCELLED -> {}]

(* validTransitions with a cancelled order allowed back to PENDING *)
validTransitionsReopen ==
    [s \in OrderStatusValue |->
        CASE s = OrderStatus.PENDING -> {OrderStatus.PROCESSING, OrderStatus.CANCELLED}
          [] s = OrderStatus.PROCESSING -> {OrderStatus.SHIPPED, OrderStatus.CANCELLED}
          [] s = OrderStatus.SHIPPED -> {OrderStatus.DELIVERED}
          [] s = OrderStatus.DELIVERED -> {}
          [] s = OrderStatus.CANCELLED -> {OrderStatus.PENDING}]

validTransitions ==
    [s \in OrderStatusValue |->
        CASE s = OrderStatus.PENDING -> {OrderStatus.PROCESSING, OrderStatus.CANCELLED}
          [] s = OrderStatus.PROCESSING -> {OrderStatus.SHIPPED, OrderStatus.CANCELLED}
          [] s = OrderStatus.SHIPPED -> {OrderStatus.DELIVERED}
          [] s = OrderStatus.DELIVERED -> {}
          [] s = OrderStatus.CANCELLED -> {}]

(* isValidStatusTransition that also accepts a transition to the current status *)
isValidStatusTransitionSelf(currentStatus, newStatus) ==
    IF currentStatus \in DOMAIN validTransitions
    THEN newStatus \in validTransitions[currentStatus] \/ newStatus = currentStatus
    ELSE FALSE

isValidStatusTransition(currentStatus, newStatus) ==
    IF currentStatus \in DOMAIN validTransitions
    THEN newStatus \in validTransitions[currentStatus]
    ELSE FALSE

(* canCancelOrder without the MODERATOR disjunct *)
canCancelOrderAdminOnly(user) ==
    user.role = UserRole.ADMIN

canCancelOrder(user) ==
    user.role = UserRole.ADMIN \/ user.role = UserRole.MODERATOR

InvalidTransition == "Invalid status transition"

PermissionDenied == "User does not have permission to cancel orders"

NoError == "none"

(* updateOrderStatus with the two checks in the other order *)
updateOrderStatusPermissionFirst(os, o, newStatus, user, t) ==
    IF newStatus = OrderStatus.CANCELLED /\ ~canCancelOrder(user)
    THEN [error |-> PermissionDenied, orders |-> os, value |-> NoRef]
    ELSE IF ~isValidStatusTransition(os[o].status, newStatus)
         THEN [error |-> InvalidTransition, orders |-> os, value |-> NoRef]
         ELSE [error |-> NoError,
               orders |-> [os EXCEPT ![o].status = newStatus, ![o].updatedAt = t],
               value |-> o]

(* updateOrderStatus that also sets order.createdAt *)
updateOrderStatusResetsCreatedAt(os, o, newStatus, user, t) ==
    IF ~isValidStatusTransition(os[o].status, newStatus)
    THEN [error |-> InvalidTransition, orders |-> os, value |-> NoRef]
    ELSE IF newStatus = OrderStatus.CANCELLED /\ ~canCancelOrder(user)
         THEN [error |-> PermissionDenied, orders |-> os, value |-> NoRef]
         ELSE [error |-> NoError,
               orders |-> [os EXCEPT ![o].status = newStatus, ![o].updatedAt = t, ![o].createdAt = t],
               value |-> o]

(* updateOrderStatus with `order.updatedAt = new Date()` before the checks *)
updateOrderStatusStampsFirst(os, o, newStatus, user, t) ==
    LET stamped == [os EXCEPT ![o].updatedAt = t]
    IN  IF ~isValidStatusTransition(os[o].status, newStatus)
        THEN [error |-> InvalidTransition, orders |-> stamped, value |-> NoRef]
        ELSE IF newStatus = OrderStatus.CANCELLED /\ ~canCancelOrder(user)
             THEN [error |-> PermissionDenied, orders |-> stamped, value |-> NoRef]
             ELSE [error |-> NoError,
                   orders |-> [stamped EXCEPT ![o].status = newStatus],
                   value |-> o]

(* updateOrderStatus without `order.updatedAt = new Date()` *)
updateOrderStatusKeepsUpdatedAt(os, o, newStatus, user, t) ==
    IF ~isValidStatusTransition(os[o].status, newStatus)
    THEN [error |-> InvalidTransition, orders |-> os, value |-> NoRef]
    ELSE IF newStatus = OrderStatus.CANCELLED /\ ~canCancelOrder(user)
         THEN [error |-> PermissionDenied, orders |-> os, value |-> NoRef]
         ELSE [error |-> NoError,
               orders |-> [os EXCEPT ![o].status = newStatus],
               value |-> o]

(* updateOrderStatus(order, newStatus, user), where the order is os[o] and *)
(* the clock reads t: the error thrown, the orders after the call and the  *)
(* reference returned                                                      *)
updateOrderStatus(os, o, newStatus, user, t) ==
    IF ~isValidStatusTransition(os[o].status, newStatus)
    THEN [error |-> InvalidTransition, orders |-> os, value |-> NoRef]
    ELSE IF newStatus = OrderStatus.CANCELLED /\ ~canCancelOrder(user)
         THEN [error |-> PermissionDenied, orders |-> os, value |-> NoRef]
         ELSE [error |-> NoError,
               orders |-> [os EXCEPT ![o].status = newStatus, ![o].updatedAt = t],
               value |-> o]

----------------------------------------------------------------------------
(* Fulfilment, foundation.ts lines 253-258 *)

(* isInStock with `product.stock > quantity` for `>=` *)
isInStockStrict(product, quantity) ==
    IF product.category = ProductCategory.DIGITAL \/ product.category = ProductCategory.SUBSCRIPTION
    THEN TRUE
    ELSE product.stock > quantity

isInStock(product, quantity) ==
    IF product.category = ProductCategory.DIGITAL \/ product.category = ProductCategory.SUBSCRIPTION
    THEN TRUE
    ELSE product.stock >= quantity

(* Digital delivery and order summary, foundation.ts lines 261-282 *)

(* 7 * 24 * 60 * 60 * 1000 milliseconds *)
SevenDays == 7 * 24 * 60 * 60 * 1000

(* `/download/${item.productId}`, for the product ids of the model *)
downloadPath(productId) ==
    CASE productId = 1 -> "/download/1"
      [] productId = 2 -> "/download/2"
      [] productId = 3 -> "/download/3"
      [] OTHER -> "/download/?"

(* order.items.filter(item => item.category === ProductCategory.DIGITAL) *)
digitalItems(h, items) ==
    SelectSeq(items, LAMBDA ref : h[ref].category = ProductCategory.DIGITAL)

(* the non-decreasing sequences of n readings of a clock that reads t or later *)
ClockReads(t, n) ==
    {ts \in [1..n -> Clock(t)] : \A i, j \in 1..n : i <= j => ts[i] <= ts[j]}

(* processDigitalDelivery that lists the deliveries last item first *)
processDigitalDeliveryReversed(h, order, ts) ==
    LET digital == digitalItems(h, order.items)
        n == Len(digital)
    IN  [k \in 1..n |->
            [productId |-> h[digital[n + 1 - k]].productId,
             downloadUrl |-> downloadPath(h[digital[n + 1 - k]].productId),
             expiresAt |-> ts[k] + SevenDays]]

(* processDigitalDelivery(order), where Date.now() reads ts[k] for the     *)
(* k-th digital item                                                       *)
processDigitalDelivery(h, order, ts) ==
    LET digital == digitalItems(h, order.items)
    IN  [k \in 1..Len(digital) |->
            [productId |-> h[digital[k]].productId,
             downloadUrl |-> downloadPath(h[digital[k]].productId),
             expiresAt |-> ts[k] + SevenDays]]

(* getOrderSummary with the number of items for the sum of their quantities *)
getOrderSummaryCountsItems(h, order) ==
    [orderId |-> order.id,
     status |-> order.status,
     itemCount |-> Len(order.items),
     total |-> order.total,
     createdAt |-> order.createdAt]

(* getOrderSummary(order) *)
getOrderSummary(h, order) ==
    [orderId |-> order.id,
     status |-> order.status,
     itemCount |-> SumSeq([i \in 1..Len(order.items) |-> h[order.items[i]].quantity]),
     total |-> order.total,
     createdAt |-> order.createdAt]

(* Cart validation, foundation.ts lines 285-299 *)

(* `Product ${item.productId} not found`, for the product ids of the model *)
notFoundError(productId) ==
    CASE productId = 1 -> "Product 1 not found"
      [] productId = 2 -> "Product 2 not found"
      [] productId = 3 -> "Product 3 not found"
      [] OTHER -> "Product ? not found"

(* `Product ${product.name} is out of stock`, for the names of the model *)
outOfStockError(name) ==
    CASE name = "Gaming Laptop" -> "Product Gaming Laptop is out of stock"
      [] name = "Laptop Care Plan" -> "Product Laptop Care Plan is out of stock"
      [] name = "TypeScript Guide" -> "Product TypeScript Guide is out of stock"
      [] name = "TypeScript Course" -> "Product TypeScript Course is out of stock"
      [] OTHER -> "Product ? is out of stock"

(* products.find(p => p.id === item.productId): the index of the first     *)
(* product of the catalog with that id, or NoRef                           *)
findProduct(products, productId) ==
    LET hits == {k \in 1..Len(products) : products[k].id = productId}
    IN  IF hits = {} THEN NoRef ELSE Min(hits)

(* the loop of validateCart from item i on: the error thrown and the value *)
(* returned                                                                *)
RECURSIVE validateCartFrom(_, _, _, _)
validateCartFrom(h, items, products, i) ==
    IF i > Len(items)
    THEN [error |-> NoError, value |-> TRUE]
    ELSE LET item == h[items[i]]
             k == findProduct(products, item.productId)
         IN  IF k = NoRef
             THEN [error |-> notFoundError(item.productId), value |-> FALSE]
             ELSE IF ~isInStock(products[k], item.quantity)
                  THEN [error |-> outOfStockError(products[k].name), value |-> FALSE]
                  ELSE validateCartFrom(h, items, products, i + 1)

(* validateCart that looks every item up in the catalog before it checks   *)
(* any stock                                                               *)
validateCartLookupFirst(h, cart, products) ==
    LET missing == {i \in 1..Len(cart.items) : findProduct(products, h[cart.items[i]].productId) = NoRef}
    IN  IF missing # {}
        THEN [error |-> notFoundError(h[cart.items[Min(missing)]].productId), value |-> FALSE]
        ELSE validateCartFrom(h, cart.items, products, 1)

(* validateCart(cart, products); `value` is meaningful when no error is thrown *)
validateCart(h, cart, products) == validateCartFrom(h, cart.items, products, 1)

----------------------------------------------------------------------------
(* The state machine.  A caller holds one cart and the order it created    *)
(* last, as the example usage does (foundation.ts lines 317-337), and      *)
(* makes the calls in any order with any of the inputs.  `carts` and       *)
(* `orders` hold the objects the caller can reach: creating a new order    *)
(* drops the previous one.                                                 *)

NoArgs == [cart |-> NoRef, order |-> NoRef, newStatus |-> NULL, role |-> NULL]

(* const cart = createCart(user.id), for a user of Us *)
InitWith(Us) ==
    \E u \in Us, t1 \in Clock(0) :
    \E t2 \in Clock(t1) :
        /\ now = t2
        /\ heap = <<>>
        /\ carts = <<createCart(u.id, t1, t2)>>
        /\ orders = <<>>
        /\ history = <<>>
        /\ added = [pid \in ProductIds |-> 0]
        /\ ret = [op |-> "createCart", args |-> NoArgs, error |-> NoError, value |-> 1]

(* addToCart(cart, product, quantity), for a product of Ps and a quantity  *)
(* of Qs                                                                   *)
AddToCart(Ps, Qs) ==
    \E c \in 1..Len(carts), product \in Ps, quantity \in Qs, t \in Clock(now) :
        LET r == addToCart(heap, carts, c, product, quantity, t)
        IN  /\ \A i \in 1..Len(r.heap) : r.heap[i].quantity \in QtyRange
            /\ heap' = r.heap
            /\ carts' = r.carts
            /\ added' = [added EXCEPT ![product.id] = @ + quantity]
            /\ now' = t
            /\ ret' = [op |-> "addToCart",
                       args |-> [cart |-> c, product |-> product],
                       error |-> NoError, value |-> r.value]
            /\ UNCHANGED <<orders, history>>

(* order = createOrder(cart, user, shippingAddress), for a user of Us and  *)
(* an address of As                                                        *)
CreateOrder(Us, As) ==
    \E c \in 1..Len(carts), user \in Us, shippingAddress \in As, r \in RandomSuffixes,
       t1 \in Clock(now) :
    \E t2 \in Clock(t1) :
    \E t3 \in Clock(t2) :
        /\ orders' = <<createOrder(heap, carts[c], user, shippingAddress, r, t1, t2, t3)>>
        /\ history' = <<[statuses |-> <<orders'[1].status>>,
                          quantities |-> [i \in 1..Len(carts[c].items) |-> heap[carts[c].items[i]].quantity]]>>
        /\ now' = t3
        /\ ret' = [op |-> "createOrder",
                   args |-> [cart |-> c, user |-> user, shippingAddress |-> shippingAddress],
                   error |-> NoError, value |-> 1]
        /\ UNCHANGED <<heap, carts, added>>

(* updateOrderStatus(order, newStatus, user), for a user of Us *)
UpdateOrderStatus(Us) ==
    \E o \in 1..Len(orders), newStatus \in OrderStatusValue, user \in Us, t \in Clock(now) :
        LET r == updateOrderStatus(orders, o, newStatus, user, t)
        IN  /\ orders' = r.orders
            /\ history' = IF r.error = NoError
                           THEN [history EXCEPT ![o].statuses = Append(@, r.orders[o].status)]
                           ELSE history
            /\ now' = IF r.error = NoError THEN t ELSE now
            /\ ret' = [op |-> "updateOrderStatus",
                       args |-> [NoArgs EXCEPT !.order = o, !.newStatus = newStatus, !.role = user.role],
                       error |-> r.error, value |-> r.value]
            /\ UNCHANGED <<heap, carts, added>>

(* The cart and the orders made from it: every product and quantity, one   *)
(* buyer.                                                                  *)
Init == InitWith({customer})

Next ==
    \/ AddToCart(Products, Quantities)
    \/ CreateOrder({customer}, {Undefined})

Spec == Init /\ [][Next]_vars

(* The order lifecycle: one product, every user, address and status. *)
NextOrder ==
    \/ AddToCart({ebook}, {1})
    \/ CreateOrder(Users, Addresses)
    \/ UpdateOrderStatus(Users)

SpecOrder == Init /\ [][NextOrder]_vars

(* calculateSubtotal(cart) *)
CalculateSubtotal ==
    \E c \in 1..Len(carts) :
        /\ ret' = [op |-> "calculateSubtotal", args |-> [NoArgs EXCEPT !.cart = c],
                   error |-> NoError, value |-> calculateSubtotal(heap, carts[c])]
        /\ UNCHANGED <<now, heap, carts, orders, history, added>>

(* the discount values and tax rates passed to calculateTotal *)
CartDiscountTypes == {"PERCENTAGE", "FIXED", NULL}

CartDiscountValues == {0, 1, 10, 150}

TaxRates == {None, Some(0), Some(8), Some(10)}

(* the number v as applyDiscount reads it under discountType: an amount of *)
(* money when the type is FIXED                                            *)
discountNumber(discountType, v) == IF discountType = "FIXED" THEN v * Unit ELSE v

(* calculateTotal(cart, discountType, discountValue, taxRate) *)
CalculateTotal ==
    \E c \in 1..Len(carts), discountType \in CartDiscountTypes,
       discountValue \in CartDiscountValues, taxRate \in TaxRates :
        /\ ret' = [op |-> "calculateTotal",
                   args |-> [cart |-> c, discountType |-> discountType,
                             discountValue |-> discountValue, taxRate |-> taxRate],
                   error |-> NoError,
                   value |-> calculateTotal(heap, carts[c], discountType,
                                            discountNumber(discountType, discountValue), taxRate)]
        /\ UNCHANGED <<now, heap, carts, orders, history, added>>

(* the catalogs passed to validateCart: complete, with a laptop stock of 1, *)
(* without the laptop, without the e-book, empty                           *)
laptopLowStock == createProduct(1, "Gaming Laptop", 3 * Unit, ProductCategory.PHYSICAL, Some(1), Undefined, 0)

Catalogs == {<<laptop, ebook>>, <<laptopLowStock, ebook>>, <<ebook>>, <<laptopLowStock>>, <<>>}

(* validateCart(cart, products) *)
ValidateCart ==
    \E c \in 1..Len(carts), products \in Catalogs :
        LET r == validateCart(heap, carts[c], products)
        IN  /\ ret' = [op |-> "validateCart", args |-> [cart |-> c, products |-> products],
                       error |-> r.error, value |-> r.value]
            /\ UNCHANGED <<now, heap, carts, orders, history, added>>

(* processDigitalDelivery(order) *)
ProcessDigitalDelivery ==
    \E o \in 1..Len(orders) :
    \E ts \in ClockReads(now, Len(digitalItems(heap, orders[o].items))) :
        /\ now' = IF ts = <<>> THEN now ELSE ts[Len(ts)]
        /\ ret' = [op |-> "processDigitalDelivery", args |-> [order |-> o, clock |-> ts],
                   error |-> NoError, value |-> processDigitalDelivery(heap, orders[o], ts)]
        /\ UNCHANGED <<heap, carts, orders, history, added>>

(* getOrderSummary(order) *)
GetOrderSummary ==
    \E o \in 1..Len(orders) :
        /\ ret' = [op |-> "getOrderSummary", args |-> [NoArgs EXCEPT !.order = o],
                   error |-> NoError, value |-> getOrderSummary(heap, orders[o])]
        /\ UNCHANGED <<now, heap, carts, orders, history, added>>

(* Every operation on one cart and its order: one product, one buyer, an    *)
(* administrator changing the status.                                      *)
NextAll ==
    \/ AddToCart({ebook}, {1})
    \/ CalculateSubtotal
    \/ CalculateTotal
    \/ ValidateCart
    \/ CreateOrder({customer}, {Undefined})
    \/ UpdateOrderStatus({admin})
    \/ GetOrderSummary
    \/ ProcessDigitalDelivery

SpecAll == Init /\ [][NextAll]_vars

(* Fulfilment of an order: two digital products and a subscription. *)
DeliveryProducts == {ebook, videoCourse, carePlan}

NextDelivery ==
    \/ AddToCart(DeliveryProducts, {1})
    \/ CreateOrder({customer}, {Undefined})
    \/ ProcessDigitalDelivery
    \/ GetOrderSummary

SpecDelivery == Init /\ [][NextDelivery]_vars

(* The cart and the calls that read it: every product and quantity. *)
NextCart ==
    \/ AddToCart(Products, Quantities)
    \/ CalculateSubtotal
    \/ CalculateTotal
    \/ ValidateCart

SpecCart == Init /\ [][NextCart]_vars

(* The functions that read no object of the store, called on every input. *)
StockQuantities == Quantities \cup {2, 3}

IsValidStatusTransition ==
    \E currentStatus \in OrderStatusValue, newStatus \in OrderStatusValue :
        /\ ret' = [op |-> "isValidStatusTransition",
                   args |-> [currentStatus |-> currentStatus, newStatus |-> newStatus],
                   error |-> NoError,
                   value |-> isValidStatusTransition(currentStatus, newStatus)]
        /\ UNCHANGED <<now, heap, carts, orders, history, added>>

CanCancelOrder ==
    \E user \in Users :
        /\ ret' = [op |-> "canCancelOrder", args |-> [user |-> user],
                   error |-> NoError, value |-> canCancelOrder(user)]
        /\ UNCHANGED <<now, heap, carts, orders, history, added>>

(* the products with each stock count *)
StockProducts == {[p EXCEPT !.stock = n] : p \in Products, n \in {0, 1, 2}}

IsInStock ==
    \E product \in StockProducts, quantity \in StockQuantities :
        /\ ret' = [op |-> "isInStock", args |-> [product |-> product, quantity |-> quantity],
                   error |-> NoError, value |-> isInStock(product, quantity)]
        /\ UNCHANGED <<now, heap, carts, orders, history, added>>

(* the inputs of the pricing functions: amounts of money, discount types,  *)
(* discount values (a percentage, or an amount of money when the type is   *)
(* FIXED)                                                                  *)
Amounts == {0, 50 * Unit, 100 * Unit}

DiscountTypes == {"PERCENTAGE", "FIXED", NULL}

DiscountValues == {0, 10, 100, 150}

ApplyDiscount ==
    \E amount \in Amounts, discountType \in DiscountTypes, discountValue \in DiscountValues :
        /\ ret' = [op |-> "applyDiscount",
                   args |-> [amount |-> amount, discountType |-> discountType,
                             discountValue |-> discountValue],
                   error |-> NoError,
                   value |-> applyDiscount(amount, discountType,
                                           discountNumber(discountType, discountValue))]
        /\ UNCHANGED <<now, heap, carts, orders, history, added>>

NextPure ==
    \/ IsValidStatusTransition
    \/ CanCancelOrder
    \/ IsInStock
    \/ ApplyDiscount

SpecPure == Init /\ [][NextPure]_vars

----------------------------------------------------------------------------
(* The claims *)

(* the items of cart c and of order o, as the objects the references name *)
CartItems(c) == [i \in 1..Len(carts[c].items) |-> heap[carts[c].items[i]]]

OrderItems(o) == [i \in 1..Len(orders[o].items) |-> heap[orders[o].items[i]]]

(* the transition table of the specification *)
TransitionTable ==
    {<<"PENDING", "PROCESSING">>, <<"PENDING", "CANCELLED">>,
     <<"PROCESSING", "SHIPPED">>, <<"PROCESSING", "CANCELLED">>,
     <<"SHIPPED", "DELIVERED">>}

Terminal == {"DELIVERED", "CANCELLED"}

Privileged == {"ADMIN", "MODERATOR"}

(* C1: once createOrder has returned an order, no addToCart call on the    *)
(* cart changes the order's item sequence or any field (productId, name,   *)
(* price, category, quantity) of an item of the order.                     *)
C1_OrderItemsUnchangedByAddToCart ==
    [][(orders # <<>> /\ ret'.op = "addToCart")
        => /\ orders'[1].items = orders[1].items
           /\ OrderItems(1)' = OrderItems(1)]_vars

(* C2: an order is created in PENDING, and every change of an order's      *)
(* status made by updateOrderStatus is an edge of the transition table.    *)
C2_StatusChangesFollowTable ==
    [][/\ ret'.op = "createOrder" => orders'[ret'.value].status = "PENDING"
       /\ ret'.op = "updateOrderStatus"
            => \A o \in 1..Len(orders) :
                   orders'[o].status # orders[o].status
                       => <<orders[o].status, orders'[o].status>> \in TransitionTable]_vars

C2_Witness ==
    /\ orders # <<>>
    /\ ret.op = "updateOrderStatus"
    /\ ret.error = NoError
    /\ orders[1].status = "DELIVERED"

(* C3: isValidStatusTransition(current, next) is true exactly for the five *)
(* pairs of the transition table, and false for the other twenty pairs of  *)
(* statuses, the five self-transitions among them.                         *)
C3_IsValidStatusTransitionIsTable ==
    ret.op = "isValidStatusTransition"
        => (ret.value <=> <<ret.args.currentStatus, ret.args.newStatus>> \in TransitionTable)

C3_Witness ==
    /\ ret.op = "isValidStatusTransition"
    /\ ret.args.currentStatus = "SHIPPED"
    /\ ret.args.newStatus = "SHIPPED"
    /\ ret.value = FALSE

(* C4: updateOrderStatus checks the transition before the permission: a    *)
(* call whose transition is not in the table fails with the                *)
(* invalid-transition error whatever the user's role, and the permission   *)
(* error is raised only for a transition of the table.                     *)
C4_TransitionCheckedBeforePermission ==
    [][ret'.op = "updateOrderStatus"
        => LET edge == <<orders[ret'.args.order].status, ret'.args.newStatus>>
           IN  /\ edge \notin TransitionTable => ret'.error = InvalidTransition
               /\ ret'.error = PermissionDenied => edge \in TransitionTable]_vars

C4_Witness ==
    /\ orders # <<>>
    /\ ret.op = "updateOrderStatus"
    /\ orders[1].status = "SHIPPED"
    /\ ret.args.newStatus = "CANCELLED"
    /\ ret.args.role = "CUSTOMER"
    /\ ret.error = InvalidTransition

(* C5: canCancelOrder(user) is true iff the user's role is ADMIN or         *)
(* MODERATOR; an order's status becomes CANCELLED only in a call made by   *)
(* an ADMIN or a MODERATOR; and for an order in PENDING or PROCESSING a    *)
(* call with CANCELLED fails with the permission error for a CUSTOMER and  *)
(* succeeds for an ADMIN or a MODERATOR.                                   *)
C5_OnlyPrivilegedUsersCancel ==
    [][/\ \A u \in Users : canCancelOrder(u) <=> u.role \in Privileged
       /\ ret'.op = "updateOrderStatus"
            => LET o == ret'.args.order
               IN  /\ (orders'[o].status = "CANCELLED" /\ orders[o].status # "CANCELLED")
                          => ret'.args.role \in Privileged
                   /\ (orders[o].status \in {"PENDING", "PROCESSING"} /\ ret'.args.newStatus = "CANCELLED")
                          => IF ret'.args.role \in Privileged
                             THEN ret'.error = NoError /\ orders'[o].status = "CANCELLED"
                             ELSE ret'.error = PermissionDenied /\ orders'[o].status = orders[o].status]_vars

C5_Witness ==
    /\ orders # <<>>
    /\ ret.op = "updateOrderStatus"
    /\ ret.args.role = "MODERATOR"
    /\ ret.error = NoError
    /\ orders[1].status = "CANCELLED"

(* C6, as stated: a successful updateOrderStatus sets the status to        *)
(* newStatus, sets updatedAt to the time of the call, a time later than    *)
(* the value updatedAt had, and returns the order it was passed.           *)
C6_UpdatedAtStrictlyLater ==
    [][(ret'.op = "updateOrderStatus" /\ ret'.error = NoError)
        => LET o == ret'.args.order
           IN  /\ orders'[o].status = ret'.args.newStatus
               /\ orders'[o].updatedAt = now'
               /\ orders'[o].updatedAt > orders[o].updatedAt
               /\ ret'.value = o
               /\ Len(orders') = Len(orders)]_vars

(* C6, amended: a successful updateOrderStatus sets the status to          *)
(* newStatus, sets updatedAt to the time of the call, which with a clock   *)
(* that never goes back is not earlier than the value updatedAt had (and   *)
(* is equal to it within one tick of the clock), and returns the order it  *)
(* was passed.                                                             *)
C6_UpdatedAtNotEarlier ==
    [][(ret'.op = "updateOrderStatus" /\ ret'.error = NoError)
        => LET o == ret'.args.order
           IN  /\ orders'[o].status = ret'.args.newStatus
               /\ orders'[o].updatedAt = now'
               /\ orders'[o].updatedAt >= orders[o].updatedAt
               /\ ret'.value = o
               /\ Len(orders') = Len(orders)]_vars

C6_Witness ==
    /\ orders # <<>>
    /\ ret.op = "updateOrderStatus"
    /\ ret.error = NoError
    /\ orders[1].status = "PROCESSING"
    /\ orders[1].updatedAt > orders[1].createdAt

(* C7: once an order is DELIVERED or CANCELLED, every updateOrderStatus    *)
(* call on it, for every requested status and every user, fails with the  *)
(* invalid-transition error, and the order keeps its status.               *)
C7_TerminalStatusesStay ==
    [][\A o \in 1..Len(orders) :
          (orders[o].status \in Terminal /\ ret'.op # "createOrder")
              => /\ orders'[o].status = orders[o].status
                 /\ (ret'.op = "updateOrderStatus" /\ ret'.args.order = o)
                        => ret'.error = InvalidTransition]_vars

C7_Witness ==
    /\ orders # <<>>
    /\ ret.op = "updateOrderStatus"
    /\ orders[1].status = "DELIVERED"
    /\ ret.args.role = "ADMIN"
    /\ ret.args.newStatus = "CANCELLED"
    /\ ret.error = InvalidTransition

(* C8: after any sequence of addToCart calls on a cart created empty, no   *)
(* two items of the cart have the same product id, and the quantity of an  *)
(* item is the sum of the quantity arguments of the calls made with its    *)
(* product id.                                                             *)
C8_OneItemPerProductWithSummedQuantity ==
    \A c \in 1..Len(carts) :
        /\ \A i, j \in 1..Len(carts[c].items) :
               i # j => CartItems(c)[i].productId # CartItems(c)[j].productId
        /\ \A i \in 1..Len(carts[c].items) :
               CartItems(c)[i].quantity = added[CartItems(c)[i].productId]

(* two items, the first one added to twice: a call adds at most 1 *)
C8_Witness ==
    /\ ret.op = "addToCart"
    /\ Len(carts[1].items) = 2
    /\ CartItems(1)[1].quantity = 2

(* C9: every item of a cart has a quantity of at least 1, after any        *)
(* sequence of addToCart calls with any integer quantity argument.         *)
C9_QuantityAtLeastOne ==
    \A c \in 1..Len(carts) :
        \A i \in 1..Len(carts[c].items) : CartItems(c)[i].quantity >= 1

(* C10: every addToCart call, appending or incrementing, sets the cart's   *)
(* lastModified to the time of the call, leaves createdAt and userId       *)
(* unchanged and returns the cart it was passed; with a clock that never   *)
(* goes back, lastModified >= createdAt in every state.                    *)
C10_LastModifiedNotBeforeCreatedAt ==
    \A c \in 1..Len(carts) : carts[c].lastModified >= carts[c].createdAt

C10_AddToCartRefreshesLastModified ==
    /\ C10_LastModifiedNotBeforeCreatedAt
    /\ [][/\ C10_LastModifiedNotBeforeCreatedAt'
          /\ ret'.op = "addToCart"
               => LET c == ret'.args.cart
                  IN  /\ carts'[c].lastModified = now'
                      /\ carts'[c].createdAt = carts[c].createdAt
                      /\ carts'[c].userId = carts[c].userId
                      /\ ret'.value = c
                      /\ Len(carts') = Len(carts)]_vars

(* an increment of an existing item at a time after the cart's creation *)
C10_Witness ==
    /\ ret.op = "addToCart"
    /\ Len(carts[1].items) = 1
    /\ CartItems(1)[1].quantity = 2
    /\ carts[1].lastModified > carts[1].createdAt

(* the sum of price x quantity over the first n items of a sequence *)
RECURSIVE SumOfPriceTimesQuantity(_, _)
SumOfPriceTimesQuantity(items, n) ==
    IF n = 0 THEN 0
    ELSE SumOfPriceTimesQuantity(items, n - 1) + items[n].price * items[n].quantity

(* C11: calculateSubtotal(cart) is the sum over the cart's items of price  *)
(* x quantity, 0 for a cart with no items, and the call leaves the cart    *)
(* and its items as they were.                                             *)
C11_SubtotalIsSumOfPriceTimesQuantity ==
    [][ret'.op = "calculateSubtotal"
        => LET c == ret'.args.cart
           IN  /\ ret'.value = SumOfPriceTimesQuantity(CartItems(c), Len(carts[c].items))
               /\ carts[c].items = <<>> => ret'.value = 0
               /\ carts' = carts
               /\ heap' = heap]_vars

C11_Witness ==
    /\ ret.op = "calculateSubtotal"
    /\ Len(carts[1].items) = 2
    /\ CartItems(1)[1].quantity = 2
    /\ CartItems(1)[2].quantity = 1
    /\ ret.value = 2 * CartItems(1)[1].price + CartItems(1)[2].price

(* C12: applyDiscount(amount, kind, value) is amount - amount*value/100    *)
(* for PERCENTAGE, max(0, amount - value) for FIXED and amount for no      *)
(* kind; the FIXED result is never below 0, the PERCENTAGE result is not   *)
(* clamped and is negative when amount > 0 and value > 100.                *)
C12_ApplyDiscountByKind ==
    ret.op = "applyDiscount"
        => LET amount == ret.args.amount
               value == ret.args.discountValue
           IN  CASE ret.args.discountType = "PERCENTAGE"
                      -> /\ 100 * ret.value = amount * (100 - value)
                         /\ (amount > 0 /\ value > 100) => ret.value < 0
                 [] ret.args.discountType = "FIXED"
                      -> /\ ret.value >= 0
                         /\ ret.value = (IF amount > value * Unit THEN amount - value * Unit ELSE 0)
                 [] OTHER -> ret.value = amount

C12_Witness ==
    /\ ret.op = "applyDiscount"
    /\ ret.args.discountType = "PERCENTAGE"
    /\ ret.args.amount = 100 * Unit
    /\ ret.args.discountValue = 150
    /\ ret.value = 0 - 50 * Unit

(* C13: calculateTotal(cart, kind, value, taxRate) is d + d*taxRate/100    *)
(* with d = applyDiscount(calculateSubtotal(cart), kind, value): the tax   *)
(* is computed on the discounted amount, and the total is d when taxRate   *)
(* is absent or 0.                                                         *)
C13_TaxOnDiscountedAmount ==
    [][ret'.op = "calculateTotal"
        => LET a == ret'.args
               d == applyDiscount(calculateSubtotal(heap, carts[a.cart]), a.discountType,
                                  discountNumber(a.discountType, a.discountValue))
               rate == IF a.taxRate.some THEN a.taxRate.val ELSE 0
           IN  /\ 100 * ret'.value = d * (100 + rate)
               /\ rate = 0 => ret'.value = d]_vars

(* a subtotal of 3, 10 percent off, 8 percent tax: 2.7 + 0.216 *)
C13_Witness ==
    /\ ret.op = "calculateTotal"
    /\ calculateSubtotal(heap, carts[1]) = 3 * Unit
    /\ ret.args.discountType = "PERCENTAGE"
    /\ ret.args.discountValue = 10
    /\ ret.args.taxRate = Some(8)
    /\ ret.value = 29160

(* C14: createOrder(cart, user, shippingAddress?) returns an order with    *)
(* status PENDING, userId = user.id, subtotal = calculateSubtotal(cart) at *)
(* the call, total = subtotal + 10% of subtotal, items equal element by    *)
(* element to cart.items at the call, and no shippingAddress when the      *)
(* argument is absent.                                                     *)
C14_CreateOrderFields ==
    [][ret'.op = "createOrder"
        => LET a == ret'.args
               order == orders'[ret'.value]
           IN  /\ order.status = "PENDING"
               /\ order.userId = a.user.id
               /\ order.subtotal = calculateSubtotal(heap, carts[a.cart])
               /\ 10 * order.total = 11 * order.subtotal
               /\ Len(order.items) = Len(carts[a.cart].items)
               /\ \A i \in 1..Len(order.items) : heap'[order.items[i]] = CartItems(a.cart)[i]
               /\ a.shippingAddress = Undefined => order.shippingAddress = NULL]_vars

(* an order placed by the administrator from the customer's cart *)
C14_Witness ==
    /\ ret.op = "createOrder"
    /\ ret.args.user = admin
    /\ ret.args.shippingAddress = Undefined
    /\ carts[1].userId = customer.id
    /\ Len(orders[1].items) = 1
    /\ orders[1].subtotal = 4 * Unit
    /\ orders[1].total = 44000

(* C15: isInStock(product, quantity) is true for a DIGITAL or SUBSCRIPTION *)
(* product whatever its stock, and for a PHYSICAL product is true iff      *)
(* stock >= quantity.                                                      *)
C15_IsInStockByCategory ==
    ret.op = "isInStock"
        => LET product == ret.args.product
           IN  IF product.category \in {"DIGITAL", "SUBSCRIPTION"}
               THEN ret.value = TRUE
               ELSE /\ product.category = "PHYSICAL"
                    /\ ret.value = (product.stock >= ret.args.quantity)

C15_Witness ==
    /\ ret.op = "isInStock"
    /\ ret.args.product.category = "PHYSICAL"
    /\ ret.args.product.stock = 2
    /\ ret.args.quantity = 2
    /\ ret.value = TRUE

(* what is wrong with an item under a catalog whose product ids are unique *)
ItemProblem(item, products) ==
    LET matching == {k \in 1..Len(products) : products[k].id = item.productId}
    IN  IF matching = {} THEN "not found"
        ELSE LET product == products[CHOOSE k \in matching : TRUE]
             IN  IF isInStock(product, item.quantity) THEN "none" ELSE "out of stock"

(* C16: validateCart(cart, products) returns true iff every item has a     *)
(* product with its id in the catalog that is in stock for the item's      *)
(* quantity (so an empty cart validates); otherwise it fails with the      *)
(* error of the first failing item in cart order: not-found when the       *)
(* item's product is absent from the catalog, out-of-stock otherwise.      *)
C16_ValidateCartFailsOnFirstBadItem ==
    [][ret'.op = "validateCart"
        => LET items == CartItems(ret'.args.cart)
               products == ret'.args.products
               bad == {i \in 1..Len(items) : ItemProblem(items[i], products) # "none"}
           IN  IF bad = {}
               THEN ret'.error = NoError /\ ret'.value = TRUE
               ELSE LET first == items[Min(bad)]
                    IN  IF ItemProblem(first, products) = "not found"
                        THEN ret'.error = notFoundError(first.productId)
                        ELSE ret'.error = outOfStockError(
                                 products[CHOOSE k \in 1..Len(products) :
                                              products[k].id = first.productId].name)]_callVars

(* the first item is out of stock and the second is not in the catalog *)
C16_Witness ==
    /\ ret.op = "validateCart"
    /\ ret.args.products = <<laptopLowStock>>
    /\ Len(carts[1].items) = 2
    /\ CartItems(1)[1].productId = 1
    /\ CartItems(1)[1].quantity = 2
    /\ CartItems(1)[2].productId = 2
    /\ ret.error = "Product Gaming Laptop is out of stock"

RECURSIVE SumOfQuantities(_, _)
SumOfQuantities(items, n) ==
    IF n = 0 THEN 0 ELSE SumOfQuantities(items, n - 1) + items[n].quantity

(* C18: the summary of an order just created from a cart has as item count *)
(* the sum of the quantities of the cart's items, as total the order's     *)
(* total, and the order's id, status and creation time.                    *)
C18_SummaryOfNewOrder ==
    [][(ret.op = "createOrder" /\ ret'.op = "getOrderSummary")
        => LET cartItems == CartItems(ret.args.cart)
               order == orders[ret'.args.order]
           IN  /\ ret'.value.itemCount = SumOfQuantities(cartItems, Len(cartItems))
               /\ ret'.value.total = order.total
               /\ ret'.value.orderId = order.id
               /\ ret'.value.status = order.status
               /\ ret'.value.createdAt = order.createdAt]_callVars

(* the summary of an order of three items, one of them with quantity 2 *)
C18_Witness ==
    /\ ret.op = "getOrderSummary"
    /\ Len(orders[1].items) = 3
    /\ Len(carts[1].items) = 3
    /\ ret.value.itemCount = 4
    /\ ret.value.status = "PENDING"

(* C19: only addToCart changes a cart and only updateOrderStatus changes    *)
(* an order: calculateSubtotal, calculateTotal, validateCart and           *)
(* createOrder leave the cart and its items as they were, and              *)
(* getOrderSummary and processDigitalDelivery leave the order as it was.   *)
(* (createOrder replaces the caller's order by a new one, so it is not     *)
(* compared with the previous order; products and users are values passed  *)
(* to the operations, which return no product or user.)                    *)
C19_OnlyAddToCartAndUpdateOrderStatusWrite ==
    [][/\ ret'.op # "addToCart"
            => /\ carts' = carts
               /\ \A c \in 1..Len(carts) : CartItems(c)' = CartItems(c)
       /\ ret'.op \notin {"updateOrderStatus", "createOrder"}
            => /\ orders' = orders
               /\ \A o \in 1..Len(orders) : OrderItems(o)' = OrderItems(o)]_vars

(* C20: a successful updateOrderStatus changes only the order's status and *)
(* updatedAt: id, userId, items (and the items' fields), subtotal, total,  *)
(* shippingAddress and createdAt are as before, and the total is still     *)
(* 1.10 times the subtotal.                                                *)
C20_UpdateOrderStatusChangesStatusAndUpdatedAtOnly ==
    [][(ret'.op = "updateOrderStatus" /\ ret'.error = NoError)
        => \A o \in 1..Len(orders) :
             o = ret'.args.order
               => /\ orders'[o].id = orders[o].id
                  /\ orders'[o].userId = orders[o].userId
                  /\ orders'[o].items = orders[o].items
                  /\ OrderItems(o)' = OrderItems(o)
                  /\ orders'[o].subtotal = orders[o].subtotal
                  /\ orders'[o].total = orders[o].total
                  /\ orders'[o].shippingAddress = orders[o].shippingAddress
                  /\ orders'[o].createdAt = orders[o].createdAt
                  /\ DOMAIN orders'[o] = DOMAIN orders[o]
                  /\ 10 * orders'[o].total = 11 * orders'[o].subtotal]_vars

(* an order with an item taken through PROCESSING and SHIPPED to DELIVERED *)
(* after its creation time                                                 *)
C20_Witness ==
    /\ ret.op = "updateOrderStatus"
    /\ ret.error = NoError
    /\ orders[1].status = "DELIVERED"
    /\ orders[1].items # <<>>
    /\ orders[1].total > 0
    /\ orders[1].updatedAt > orders[1].createdAt

(* the product ids of the items of cart c, in the order of cart.items *)
CartProductIds(c) == [i \in 1..Len(carts[c].items) |-> CartItems(c)[i].productId]

(* C21: cart items keep insertion order: an addToCart call with a product  *)
(* id not yet in the cart appends the new item at the end of cart.items, a *)
(* call with a product id already in the cart leaves the length and the    *)
(* order of cart.items as they were, and no step makes cart.items shorter  *)
(* or removes an item.                                                     *)
C21_CartItemsKeepInsertionOrder ==
    [][\A c \in 1..Len(carts) :
         /\ Len(carts'[c].items) >= Len(carts[c].items)
         /\ SubSeq(carts'[c].items, 1, Len(carts[c].items)) = carts[c].items
         /\ SubSeq(CartProductIds(c)', 1, Len(carts[c].items)) = CartProductIds(c)
         /\ (ret'.op = "addToCart" /\ ret'.args.cart = c)
              => IF \E i \in 1..Len(carts[c].items) :
                        CartProductIds(c)[i] = ret'.args.product.id
                 THEN /\ carts'[c].items = carts[c].items
                      /\ CartProductIds(c)' = CartProductIds(c)
                 ELSE /\ Len(carts'[c].items) = Len(carts[c].items) + 1
                      /\ CartProductIds(c)' = Append(CartProductIds(c), ret'.args.product.id)]_callVars

(* the e-book first, the laptop second, then the e-book again *)
C21_Witness ==
    /\ ret.op = "addToCart"
    /\ ret.args.product = ebook
    /\ CartProductIds(1) = <<2, 1>>
    /\ CartItems(1)[1].quantity = 2

(* C22: an updateOrderStatus call that fails, with the invalid-transition  *)
(* error or with the permission error, leaves the order as it was: status, *)
(* updatedAt, every other field and the items.                             *)
C22_FailedUpdateLeavesOrderUnchanged ==
    [][(ret'.op = "updateOrderStatus" /\ ret'.error \in {InvalidTransition, PermissionDenied})
        => /\ orders' = orders
           /\ \A o \in 1..Len(orders) : OrderItems(o)' = OrderItems(o)
           /\ ret'.value = NoRef]_callVars

(* a customer is refused the cancellation of an order in PROCESSING, at a  *)
(* time after the order's last update                                      *)
C22_Witness ==
    /\ ret.op = "updateOrderStatus"
    /\ ret.error = PermissionDenied
    /\ ret.args.role = "CUSTOMER"
    /\ orders[1].status = "PROCESSING"
    /\ orders[1].items # <<>>

(* the statuses order o has held, oldest first *)
Held(o) == history[o].statuses

(* some sequence of at most n updateOrderStatus calls by an administrator  *)
(* takes order o of os to a terminal status                                *)
RECURSIVE AdminCanFinish(_, _, _)
AdminCanFinish(os, o, n) ==
    \/ os[o].status \in Terminal
    \/ /\ n > 0
       /\ \E newStatus \in OrderStatusValue :
            LET r == updateOrderStatus(os, o, newStatus, admin, now)
            IN  r.error = NoError /\ AdminCanFinish(r.orders, o, n - 1)

(* C23: the status machine is acyclic and bounded: at most 3               *)
(* updateOrderStatus calls on one order succeed, an order never holds      *)
(* again a status it has left, and from every status that is not terminal  *)
(* some sequence of calls by an ADMIN reaches DELIVERED or CANCELLED.      *)
C23_StatusMachineAcyclicAndBounded ==
    \A o \in 1..Len(orders) :
        /\ Held(o)[Len(Held(o))] = orders[o].status
        /\ Len(Held(o)) - 1 <= 3
        /\ \A i, j \in 1..Len(Held(o)) : i # j => Held(o)[i] # Held(o)[j]
        /\ AdminCanFinish(orders, o, 3)

(* the longest life of an order: three successful calls *)
C23_Witness ==
    /\ ret.op = "updateOrderStatus"
    /\ ret.error = NoError
    /\ Held(1) = <<"PENDING", "PROCESSING", "SHIPPED", "DELIVERED">>

(* C24: an order that is DELIVERED was SHIPPED before and PROCESSING       *)
(* before that, an order that is SHIPPED was PROCESSING before, and an     *)
(* order that has been SHIPPED is never CANCELLED: a call that asks for it *)
(* fails for every user.                                                   *)
C24_DeliveredAfterShippedAfterProcessing ==
    /\ \A o \in 1..Len(orders) :
        /\ orders[o].status = "DELIVERED"
             => Held(o) = <<"PENDING", "PROCESSING", "SHIPPED", "DELIVERED">>
        /\ orders[o].status = "SHIPPED"
             => Held(o) = <<"PENDING", "PROCESSING", "SHIPPED">>
        /\ (\E i \in 1..Len(Held(o)) : Held(o)[i] = "SHIPPED")
             => orders[o].status # "CANCELLED"
    /\ [][(ret'.op = "updateOrderStatus" /\ ret'.args.newStatus = "CANCELLED")
            => \A o \in 1..Len(orders) :
                 (o = ret'.args.order /\ \E i \in 1..Len(Held(o)) : Held(o)[i] = "SHIPPED")
                   => /\ ret'.error = InvalidTransition
                      /\ orders'[o].status = orders[o].status]_callVars

(* an administrator is refused the cancellation of a shipped order *)
C24_Witness ==
    /\ ret.op = "updateOrderStatus"
    /\ ret.args.newStatus = "CANCELLED"
    /\ ret.args.role = "ADMIN"
    /\ ret.error = InvalidTransition
    /\ Held(1) = <<"PENDING", "PROCESSING", "SHIPPED">>

(* C25: in every reachable state, for every created order, order.subtotal  *)
(* is the sum over order.items of price x quantity, and the itemCount of   *)
(* getOrderSummary(order) is the sum of the quantities the cart's items    *)
(* had when the order was created, after any interleaving of createOrder,  *)
(* addToCart on the cart and updateOrderStatus.                            *)
C25_OrderMatchesItsItems ==
    \A o \in 1..Len(orders) :
        /\ orders[o].subtotal = SumOfPriceTimesQuantity(OrderItems(o), Len(OrderItems(o)))
        /\ getOrderSummary(heap, orders[o]).itemCount = SumSeq(history[o].quantities)

(* C26: a cart item is a snapshot taken at the first addToCart for its     *)
(* product id: the new item has the product's id, name, price and          *)
(* category; no later step changes them, and an addToCart with a product   *)
(* of the same id (the same record or one with another name, price or      *)
(* category) changes the item's quantity only, by the quantity added, so   *)
(* that the subtotal grows by that quantity at the item's recorded price.  *)
C26_CartItemIsSnapshotOfFirstProduct ==
    [][\A c \in 1..Len(carts) :
         /\ \A i \in 1..Len(carts[c].items) :
              /\ CartItems(c)'[i].productId = CartItems(c)[i].productId
              /\ CartItems(c)'[i].name = CartItems(c)[i].name
              /\ CartItems(c)'[i].price = CartItems(c)[i].price
              /\ CartItems(c)'[i].category = CartItems(c)[i].category
         /\ (ret'.op = "addToCart" /\ ret'.args.cart = c)
              => LET product == ret'.args.product
                     quantity == added'[product.id] - added[product.id]
                     existing == {i \in 1..Len(carts[c].items) : CartItems(c)[i].productId = product.id}
                 IN  IF existing = {}
                     THEN CartItems(c)'[Len(carts'[c].items)] =
                              [productId |-> product.id, name |-> product.name,
                               price |-> product.price, quantity |-> quantity,
                               category |-> product.category]
                     ELSE \A i \in 1..Len(carts[c].items) :
                            /\ CartItems(c)'[i].quantity =
                                   CartItems(c)[i].quantity + (IF i \in existing THEN quantity ELSE 0)
                            /\ i \in existing
                                 => calculateSubtotal(heap', carts'[c]) =
                                        calculateSubtotal(heap, carts[c]) + quantity * CartItems(c)[i].price]_callVars

(* the laptop, then the care plan with the laptop's id: one item with the  *)
(* laptop's name, price and category and a quantity of 2                   *)
C26_Witness ==
    /\ ret.op = "addToCart"
    /\ ret.args.product = carePlan
    /\ Len(carts[1].items) = 1
    /\ CartItems(1)[1] = [productId |-> 1, name |-> "Gaming Laptop", price |-> laptop.price,
                          quantity |-> 2, category |-> "PHYSICAL"]
    /\ calculateSubtotal(heap, carts[1]) = 2 * laptop.price

====
